---- MODULE Spec2Model ----
(***************************************************************************)
(* Conway's Game of Life on a torus, as implemented by                     *)
(* src/GameOfLife/game_of_life.cpp: the random seeding helper              *)
(* (gol::aux::rndBool), the grid with its visible buffer (lines) and its   *)
(* scratch buffer (lines_buffer), the neighbour count, the two phases of   *)
(* go() and the driver loop of main().                                     *)
(*                                                                         *)
(* The specifications share the variables:                                 *)
(*   Spec      the Grid object driven through its public operations        *)
(*             (initializeRandomly, go) in any order;                      *)
(*   SpecAdvance  go() called on the larger grids, in the states a few     *)
(*             calls with sparse seedings leave;                           *)
(*   SpecStep  the Grid object with go() stepped cell by cell and a caller *)
(*             that reads the grid between the calls;                      *)
(*   SpecMain  the program main(): seed once, then draw, go, sleep         *)
(*             forever, with go() stepped cell by cell;                    *)
(*   SpecMainFair  SpecMain with the program taking its next step          *)
(*             whenever it has one;                                        *)
(*   SpecSeed  initializeRandomly stepped cell by cell, every cell with    *)
(*             its own draw of std::rand();                                *)
(*   SpecRead  Spec with a caller that also reads the grid (isAlive, size) *)
(*             between the calls that write it.                            *)
(***************************************************************************)
EXTENDS Integers, FiniteSets, Sequences, TLC

VARIABLES
    size,          \* lines.size(), fixed by the constructor
    lines,         \* Grid::lines, the visible buffer: lines[x][y] is a Cell's alive flag
    lines_buffer,  \* Grid::lines_buffer, the scratch buffer
    pc,            \* where the caller / the program stands
    ii,            \* loop variable ii of the running method
    jj,            \* loop variable jj of the running method
    probability,   \* argument of the latest initializeRandomly call (-1: none yet)
    rand,          \* SpecSeed: what std::rand() returned in the latest draw (-1: no draw yet)
    coin,          \* SpecSeed: what rndBool returned in the latest draw
    gen,           \* go() calls that have returned (SpecMain: counted up to MaxGo)
    seeds,         \* initializeRandomly calls that have returned
    query,         \* the last isAlive / size call and what it returned
    screen         \* the frame draw() wrote last, line by line (<<>>: none yet)

vars == <<size, lines, lines_buffer, pc, ii, jj, probability, rand, coin, gen,
          seeds, query, screen>>

(***************************************************************************)
(* Bounds of the model.                                                    *)
(***************************************************************************)
\* Spec, SpecStep: grids of size 1..MaxN are constructed
MaxN == 3
\* Spec, SpecStep, SpecRead: the caller calls initializeRandomly at most
\* MaxSeeds times ...
MaxSeeds == 2
\* ... and go() at most MaxGo times, in any order; SpecMain: gen counts up
\* to MaxGo
MaxGo == 3
\* grids of size 1..MaxDrawN are seeded draw by draw in SpecSeed
MaxDrawN == 2
\* grids of size 1..MaxReadN are read cell by cell in SpecRead
MaxReadN == 2
\* SpecAdvance: grids of size 1..MaxAdvanceN, seeded with live cells among
\* the first MaxSeedDraws cells in row order
MaxAdvanceN == 5
MaxSeedDraws == 6

\* the probabilities passed to initializeRandomly (main() passes 30)
Probs == {0, 5, 30, 100}

\* main(): gol::Grid grid{ 20 } and grid.initializeRandomly(30)
MainSize == 20
MainProbability == 30

\* the probabilities the caller of Spec and SpecRead passes: 0 and the 30 of
\* main() (rndBool can return true and false for every probability 1..100,
\* so that every probability of 1..100 leaves the same visible buffers)
CallerProbs == {0, 30}

\* the values std::rand() returns in the model: 0, the values around each
\* probability and around each pow10, and RAND_MAX of the GNU C library
Rands == {0, 4, 5, 10, 11, 29, 30, 99, 100, 101, 1000, 1001, 2147483647}

(***************************************************************************)
(* gol::aux::rndBool                                                       *)
(***************************************************************************)
RECURSIVE Pow(_, _)
\* std::pow(b, e) for integers b >= 1, e >= 0
Pow(b, e) == IF e = 0 THEN 1 ELSE b * Pow(b, e - 1)

RECURSIVE Log10Int(_)
\* int(std::log10(p)) for an integer p >= 1: the number of digits less one
Log10Int(p) == IF p < 10 THEN 0 ELSE 1 + Log10Int(p \div 10)

\* The values `pow10` can take on line 29.  For probability >= 1 it is
\* 10^(digits of probability) + 1.  For probability = 0, log10 is -infinity
\* and its conversion to int is undefined: the usual conversions give INT_MIN,
\* pow(10, INT_MIN) is 0 and pow10 is 1; other small exponents give 2, 11, ...
Pow10Of(p) ==
    IF p >= 1 THEN {Pow(10, Log10Int(p) + 1) + 1}
    ELSE {1, 2, 11}

\* lines 30-32 with `rnd <= probability` in place of `rnd < probability`
RndBoolWith_Inclusive(pow10, p, r) ==
    LET rndNum == r % pow10
    IN  rndNum * pow10 <= p * pow10

\* lines 30-32 for one value of pow10: rnd = (rand % pow10) / pow10 is
\* compared with probability / pow10 (two fractions with the same
\* positive denominator: compared by cross-multiplication)
RndBoolWith(pow10, p, r) ==
    LET rndNum == r % pow10
    IN  rndNum * pow10 < p * pow10

\* the results rndBool(probability) can return when std::rand() returns r
rndBool(p, r) == {RndBoolWith(q, p, r) : q \in Pow10Of(p)}

\* the results rndBool(probability) can return at all
RndOutcomes(p) == UNION {rndBool(p, r) : r \in Rands}

(***************************************************************************)
(* Cell, Line, Grid                                                        *)
(***************************************************************************)
Idx(n) == 0..(n - 1)

\* Line::Line(size): size dead cells
Line(n) == [yy \in Idx(n) |-> FALSE]

\* Grid::Grid(size): each buffer is size lines of size dead cells
Grid(n) == [xx \in Idx(n) |-> Line(n)]

\* Grid::size on a buffer
GridSize(L) == Cardinality(DOMAIN L)

\* Grid::isAlive(xx, yy), read from buffer L
isAlive(L, xx, yy) == L[xx][yy]

\* char(bool)
CharOf(b) == IF b THEN 1 ELSE 0

\* countAliveCells with the left neighbour of line 0 not wrapped to the last
\* line (ii == 0 ? 0 : ii - 1)
countAliveCells_NoWrap(L, i, j) ==
    LET n == GridSize(L)
        xxLEFT == IF i = 0 THEN 0 ELSE i - 1
        xxRGHT == IF i = n - 1 THEN 0 ELSE i + 1
        yyLEFT == IF j = 0 THEN n - 1 ELSE j - 1
        yyRGHT == IF j = n - 1 THEN 0 ELSE j + 1
    IN    CharOf(isAlive(L, i, yyLEFT))
        + CharOf(isAlive(L, i, yyRGHT))
        + CharOf(isAlive(L, xxLEFT, j))
        + CharOf(isAlive(L, xxLEFT, yyLEFT))
        + CharOf(isAlive(L, xxLEFT, yyRGHT))
        + CharOf(isAlive(L, xxRGHT, j))
        + CharOf(isAlive(L, xxRGHT, yyLEFT))
        + CharOf(isAlive(L, xxRGHT, yyRGHT))

\* Grid::countAliveCells(ii, jj) on the visible buffer L
countAliveCells(L, i, j) ==
    LET n == GridSize(L)
        xxLEFT == IF i = 0 THEN n - 1 ELSE i - 1
        xxRGHT == IF i = n - 1 THEN 0 ELSE i + 1
        yyLEFT == IF j = 0 THEN n - 1 ELSE j - 1
        yyRGHT == IF j = n - 1 THEN 0 ELSE j + 1
    IN    CharOf(isAlive(L, i, yyLEFT))
        + CharOf(isAlive(L, i, yyRGHT))
        + CharOf(isAlive(L, xxLEFT, j))
        + CharOf(isAlive(L, xxLEFT, yyLEFT))
        + CharOf(isAlive(L, xxLEFT, yyRGHT))
        + CharOf(isAlive(L, xxRGHT, j))
        + CharOf(isAlive(L, xxRGHT, yyLEFT))
        + CharOf(isAlive(L, xxRGHT, yyRGHT))

\* the body with `count = 3` for `count == 3` in the else branch: the
\* assignment is true, and every cell dead in the scratch buffer is set alive
LinesToBufferCell_AssignCount(L, B, i, j) ==
    LET count == countAliveCells(L, i, j)
    IN  IF isAlive(B, i, j)
        THEN CASE count \in {0, 1} -> [B EXCEPT ![i][j] = FALSE]
               [] count \in {2, 3} -> [B EXCEPT ![i][j] = TRUE]
               [] OTHER            -> [B EXCEPT ![i][j] = FALSE]
        ELSE [B EXCEPT ![i][j] = TRUE]

\* the body with setAlive(true) under `case 0: case 1:`
LinesToBufferCell_LonelyLives(L, B, i, j) ==
    LET count == countAliveCells(L, i, j)
    IN  IF isAlive(B, i, j)
        THEN CASE count \in {0, 1} -> [B EXCEPT ![i][j] = TRUE]
               [] count \in {2, 3} -> [B EXCEPT ![i][j] = TRUE]
               [] OTHER            -> [B EXCEPT ![i][j] = FALSE]
        ELSE IF count = 3
             THEN [B EXCEPT ![i][j] = TRUE]
             ELSE B

\* the body with setAlive(true) under `default:`
LinesToBufferCell_CrowdedLives(L, B, i, j) ==
    LET count == countAliveCells(L, i, j)
    IN  IF isAlive(B, i, j)
        THEN CASE count \in {0, 1} -> [B EXCEPT ![i][j] = FALSE]
               [] count \in {2, 3} -> [B EXCEPT ![i][j] = TRUE]
               [] OTHER            -> [B EXCEPT ![i][j] = TRUE]
        ELSE IF count = 3
             THEN [B EXCEPT ![i][j] = TRUE]
             ELSE B

\* the body with `if (lines[ ii ][ jj ].isAlive())` on line 154
LinesToBufferCell_ReadsVisible(L, B, i, j) ==
    LET count == countAliveCells(L, i, j)
    IN  IF isAlive(L, i, j)
        THEN CASE count \in {0, 1} -> [B EXCEPT ![i][j] = FALSE]
               [] count \in {2, 3} -> [B EXCEPT ![i][j] = TRUE]
               [] OTHER            -> [B EXCEPT ![i][j] = FALSE]
        ELSE IF count = 3
             THEN [B EXCEPT ![i][j] = TRUE]
             ELSE B

\* body of the loops of linesToBuffer for one (ii, jj): the new scratch buffer
LinesToBufferCell(L, B, i, j) ==
    LET count == countAliveCells(L, i, j)
    IN  IF isAlive(B, i, j)
        THEN CASE count \in {0, 1} -> [B EXCEPT ![i][j] = FALSE]
               [] count \in {2, 3} -> [B EXCEPT ![i][j] = TRUE]
               [] OTHER            -> [B EXCEPT ![i][j] = FALSE]
        ELSE IF count = 3
             THEN [B EXCEPT ![i][j] = TRUE]
             ELSE B

RECURSIVE LinesToBufferFrom(_, _, _)
\* the loops of linesToBuffer from the k-th cell (row-major) on
LinesToBufferFrom(L, B, k) ==
    LET n == GridSize(L)
    IN  IF k >= n * n THEN B
        ELSE LinesToBufferFrom(L, LinesToBufferCell(L, B, k \div n, k % n), k + 1)

\* Grid::linesToBuffer: the scratch buffer it leaves
linesToBuffer(L, B) == LinesToBufferFrom(L, B, 0)

\* the body reading lines_buffer[ jj ][ ii ]
BufferToLinesCell_Transposed(L, B, i, j) == [L EXCEPT ![i][j] = isAlive(B, j, i)]

\* body of the loops of bufferToLines for one (ii, jj): the new visible buffer
BufferToLinesCell(L, B, i, j) == [L EXCEPT ![i][j] = isAlive(B, i, j)]

RECURSIVE BufferToLinesFrom(_, _, _)
\* the loops of bufferToLines from the k-th cell (row-major) on
BufferToLinesFrom(L, B, k) ==
    LET n == GridSize(L)
    IN  IF k >= n * n THEN L
        ELSE BufferToLinesFrom(BufferToLinesCell(L, B, k \div n, k % n), B, k + 1)

\* Grid::bufferToLines: the visible buffer it leaves
bufferToLines(L, B) == BufferToLinesFrom(L, B, 0)

(***************************************************************************)
(* Seeding as a whole: Grid::initializeRandomly(probability)               *)
(***************************************************************************)
Cells(n) == Idx(n) \X Idx(n)

\* the grid with exactly the cells of S alive
GridOf(n, S) == [xx \in Idx(n) |-> [yy \in Idx(n) |-> <<xx, yy>> \in S]]

\* Grid::initializeRandomly(p): the visible buffers the call can leave.
\* Every cell of every line is assigned the result of its own rndBool(p)
\* call, whatever it held before.
initializeRandomly(n, p) == [Idx(n) -> [Idx(n) -> RndOutcomes(p)]]

\* the results of rndBool for the probabilities the caller passes
CallerOutcomes == [p \in CallerProbs |-> RndOutcomes(p)]

\* no isAlive / size call since the grid was last written
NoQuery == [op |-> "none", xx |-> 0, yy |-> 0, alive |-> FALSE, n |-> 0]

(***************************************************************************)
(* Spec: the Grid object and its public operations.  pc is the caller's   *)
(* position: "constructed", "seeded" and "advanced" after the constructor, *)
(* initializeRandomly and go() have returned, "bufferToLines" inside go()  *)
(* between its two calls.  initializeRandomly and go() can be called in    *)
(* every state between two calls: after the constructor, after             *)
(* initializeRandomly and after go().                                      *)
(***************************************************************************)
Init ==
    /\ size \in 1..MaxN
    /\ lines = Grid(size)
    /\ lines_buffer = Grid(size)
    /\ pc = "constructed"
    /\ ii = 0
    /\ jj = 0
    /\ probability = -1
    /\ rand = -1
    /\ coin = FALSE
    /\ gen = 0
    /\ seeds = 0
    /\ query = NoQuery
    /\ screen = <<>>

\* grid.initializeRandomly(p) with the draws assigned to the cells of both
\* buffers
Seed_WritesBuffer(p) ==
    /\ pc \in {"constructed", "seeded", "advanced"}
    /\ seeds < MaxSeeds
    /\ lines' \in initializeRandomly(size, p)
    /\ lines_buffer' = lines'
    /\ probability' = p
    /\ pc' = "seeded"
    /\ seeds' = seeds + 1
    /\ query' = NoQuery
    /\ UNCHANGED <<screen, size, ii, jj, rand, coin, gen>>

\* grid.initializeRandomly(p): every cell of the visible buffer gets the
\* result of its own draw
Seed(p) ==
    /\ pc \in {"constructed", "seeded", "advanced"}
    /\ seeds < MaxSeeds
    /\ lines' \in initializeRandomly(size, p)
    /\ probability' = p
    /\ pc' = "seeded"
    /\ seeds' = seeds + 1
    /\ query' = NoQuery
    /\ UNCHANGED <<screen, size, lines_buffer, ii, jj, rand, coin, gen>>

\* grid.go(), first call: this->linesToBuffer()
GoLinesToBuffer ==
    /\ pc \in {"constructed", "seeded", "advanced"}
    /\ gen < MaxGo
    /\ lines_buffer' = linesToBuffer(lines, lines_buffer)
    /\ pc' = "bufferToLines"
    /\ query' = NoQuery
    /\ UNCHANGED <<screen, size, lines, ii, jj, probability, rand, coin, gen, seeds>>

\* grid.go(), second call: this->bufferToLines(), and the return
GoBufferToLines ==
    /\ pc = "bufferToLines"
    /\ lines' = bufferToLines(lines, lines_buffer)
    /\ pc' = "advanced"
    /\ gen' = gen + 1
    /\ query' = NoQuery
    /\ UNCHANGED <<screen, size, lines_buffer, ii, jj, probability, rand, coin, seeds>>

Next ==
    \/ \E p \in CallerProbs : Seed(p)
    \/ GoLinesToBuffer
    \/ GoBufferToLines

Spec == Init /\ [][Next]_vars

(***************************************************************************)
(* SpecAdvance: go() on the grids of size 1..MaxAdvanceN.  A seeding of a  *)
(* grid of size 5 has 2^25 outcomes; this specification starts where a     *)
(* caller stands after a few calls whose seedings left live cells among    *)
(* the first MaxSeedDraws cells only, and calls go() from there.  Every    *)
(* behaviour of it is the end of a behaviour of the program, and it is not *)
(* all of them.                                                            *)
(***************************************************************************)
\* the first MaxSeedDraws cells of a grid in the order of the seeding loops
SeedCells(n) == {c \in Cells(n) : c[1] * n + c[2] < MaxSeedDraws}

\* the visible buffers a seeding leaves when it gives life to cells of
\* SeedCells(n) only
SeedGrids(n) == {GridOf(n, S) : S \in SUBSET SeedCells(n)}

\* the state after: construct, initializeRandomly (first disjunct), or
\* after: construct, initializeRandomly with outcome L, go(),
\* initializeRandomly (second disjunct: go() left lines_buffer equal to the
\* generation it committed, the second seeding left it alone)
InitAdvance ==
    /\ size \in 1..MaxAdvanceN
    /\ \/ /\ lines_buffer = Grid(size)
          /\ gen = 0
          /\ seeds = 1
       \/ /\ \E L \in SeedGrids(size) :
                lines_buffer = bufferToLines(L, linesToBuffer(L, Grid(size)))
          /\ gen = 1
          /\ seeds = 2
    /\ lines \in SeedGrids(size)
    /\ pc = "seeded"
    /\ ii = 0
    /\ jj = 0
    /\ probability = MainProbability
    /\ rand = -1
    /\ coin = FALSE
    /\ query = NoQuery
    /\ screen = <<>>

NextAdvance ==
    \/ GoLinesToBuffer
    \/ GoBufferToLines

SpecAdvance == InitAdvance /\ [][NextAdvance]_vars

(***************************************************************************)
(* SpecRead: Spec with a caller that also reads the grid between the       *)
(* calls that write it: grid.isAlive(xx, yy) for every cell and            *)
(* grid.size().  query records the last read and what it returned; a call  *)
(* that writes the grid clears it.  Grids of size 1..MaxReadN.             *)
(***************************************************************************)
InitRead ==
    /\ size \in 1..MaxReadN
    /\ lines = Grid(size)
    /\ lines_buffer = Grid(size)
    /\ pc = "constructed"
    /\ ii = 0
    /\ jj = 0
    /\ probability = -1
    /\ rand = -1
    /\ coin = FALSE
    /\ gen = 0
    /\ seeds = 0
    /\ query = NoQuery
    /\ screen = <<>>

\* grid.isAlive(xx, yy) with a cell that takes its flag away when it is read
IsAliveCall_Clears(xx, yy) ==
    /\ pc \in {"constructed", "seeded", "advanced"}
    /\ query' = [op |-> "isAlive", xx |-> xx, yy |-> yy,
                 alive |-> isAlive(lines, xx, yy), n |-> 0]
    /\ lines' = [lines EXCEPT ![xx][yy] = FALSE]
    /\ UNCHANGED <<screen, size, lines_buffer, pc, ii, jj, probability, rand, coin, gen, seeds>>

\* grid.isAlive(xx, yy): returns this->lines[xx][yy].isAlive(), which
\* returns this->alive
IsAliveCall(xx, yy) ==
    /\ pc \in {"constructed", "seeded", "advanced"}
    /\ query' = [op |-> "isAlive", xx |-> xx, yy |-> yy,
                 alive |-> isAlive(lines, xx, yy), n |-> 0]
    /\ UNCHANGED <<screen, size, lines, lines_buffer, pc, ii, jj, probability, rand, coin, gen, seeds>>

\* grid.size(): returns this->lines.size()
SizeCall ==
    /\ pc \in {"constructed", "seeded", "advanced"}
    /\ query' = [op |-> "size", xx |-> 0, yy |-> 0, alive |-> FALSE,
                 n |-> GridSize(lines)]
    /\ UNCHANGED <<screen, size, lines, lines_buffer, pc, ii, jj, probability, rand, coin, gen, seeds>>

NextRead ==
    \/ \E p \in CallerProbs : Seed(p)
    \/ GoLinesToBuffer
    \/ GoBufferToLines
    \/ \E xx \in Idx(size) : \E yy \in Idx(size) : IsAliveCall(xx, yy)
    \/ SizeCall

SpecRead == InitRead /\ [][NextRead]_vars

(***************************************************************************)
(* SpecMain: the program main().  pc is the statement main() is about to   *)
(* run: "seed" (line 213), "draw" (215), "linesToBuffer" and               *)
(* "bufferToLines" (216, inside go(), one step per (ii, jj) of the loops)  *)
(* and "sleep" (217).  The grid is main()'s: size 20, which the seeding    *)
(* leaves in any of 2^400 states.                                          *)
(***************************************************************************)
InitMain ==
    /\ size = MainSize
    /\ lines = Grid(size)
    /\ lines_buffer = Grid(size)
    /\ pc = "seed"
    /\ ii = 0
    /\ jj = 0
    /\ probability = -1
    /\ rand = -1
    /\ coin = FALSE
    /\ gen = 0
    /\ seeds = 0
    /\ query = NoQuery
    /\ screen = <<>>

\* grid.initializeRandomly(30)
MainSeed ==
    /\ pc = "seed"
    /\ lines' \in initializeRandomly(size, MainProbability)
    /\ probability' = MainProbability
    /\ pc' = "draw"
    /\ seeds' = seeds + 1
    /\ UNCHANGED <<query, screen, size, lines_buffer, ii, jj, rand, coin, gen>>

\* grid.isAlive(ii, jj) ? '*' : ' '
Glyph(b) == IF b THEN "*" ELSE " "

\* one line of draw(): the cells of line i, a blank and the line number
FrameLine(L, i) ==
    <<[j \in 1..GridSize(L) |-> Glyph(isAlive(L, i, j - 1))], " ", i>>

\* what draw(grid) writes: the lines 0 .. size() - 1 in order
Frame(L) == [i \in 1..GridSize(L) |-> FrameLine(L, i - 1)]

\* draw(grid): writes size() lines of size() cells read with isAlive(ii, jj);
\* then go() is entered and linesToBuffer starts its loops
Draw ==
    /\ pc = "draw"
    /\ screen' = Frame(lines)
    /\ pc' = "linesToBuffer"
    /\ ii' = 0
    /\ jj' = 0
    /\ UNCHANGED <<query, size, lines, lines_buffer, probability, rand, coin, gen, seeds>>

\* (ii, jj) is the last cell of the two nested loops
LastCell(n, i, j) == i = n - 1 /\ j = n - 1

\* ++jj, and ++ii with jj = 0 at the end of a line
NextII(n, i, j) == IF j = n - 1 THEN i + 1 ELSE i
NextJJ(n, i, j) == IF j = n - 1 THEN 0 ELSE j + 1

\* one pass through the body of the loops of a linesToBuffer that writes the
\* cell's next state to the visible buffer itself
LinesToBufferStep_InPlace ==
    /\ pc = "linesToBuffer"
    /\ lines' = BufferToLinesCell(lines,
                     LinesToBufferCell(lines, lines_buffer, ii, jj), ii, jj)
    /\ IF LastCell(size, ii, jj)
       THEN pc' = "bufferToLines" /\ ii' = 0 /\ jj' = 0
       ELSE pc' = pc /\ ii' = NextII(size, ii, jj) /\ jj' = NextJJ(size, ii, jj)
    /\ UNCHANGED <<query, screen, size, lines_buffer, probability, rand, coin, gen, seeds>>

\* one pass through the body of the loops of linesToBuffer
LinesToBufferStep ==
    /\ pc = "linesToBuffer"
    /\ lines_buffer' = LinesToBufferCell(lines, lines_buffer, ii, jj)
    /\ IF LastCell(size, ii, jj)
       THEN pc' = "bufferToLines" /\ ii' = 0 /\ jj' = 0
       ELSE pc' = pc /\ ii' = NextII(size, ii, jj) /\ jj' = NextJJ(size, ii, jj)
    /\ UNCHANGED <<query, screen, size, lines, probability, rand, coin, gen, seeds>>

\* one pass through the body of the loops of bufferToLines; after the last
\* one go() returns
BufferToLinesStep ==
    /\ pc = "bufferToLines"
    /\ lines' = BufferToLinesCell(lines, lines_buffer, ii, jj)
    /\ IF LastCell(size, ii, jj)
       THEN /\ pc' = "sleep"
            /\ ii' = 0
            /\ jj' = 0
            /\ gen' = IF gen < MaxGo THEN gen + 1 ELSE gen
       ELSE /\ pc' = pc
            /\ ii' = NextII(size, ii, jj)
            /\ jj' = NextJJ(size, ii, jj)
            /\ gen' = gen
    /\ UNCHANGED <<query, screen, size, lines_buffer, probability, rand, coin, seeds>>

\* std::this_thread::sleep_for(1 s), and the loop starts over
Sleep ==
    /\ pc = "sleep"
    /\ pc' = "draw"
    /\ UNCHANGED <<query, screen, size, lines, lines_buffer, ii, jj, probability, rand, coin, gen, seeds>>

NextMain ==
    \/ MainSeed
    \/ Draw
    \/ LinesToBufferStep
    \/ BufferToLinesStep
    \/ Sleep

SpecMain == InitMain /\ [][NextMain]_vars

\* main() is one sequential thread and every statement of it returns (the
\* loops of draw and go() are bounded by size, sleep_for lasts a second):
\* the program takes its next step whenever it has one
SpecMainFair == SpecMain /\ WF_vars(NextMain)

(***************************************************************************)
(* SpecStep: the Grid object of Spec with go() stepped cell by cell, one   *)
(* step per (ii, jj) of the loops of linesToBuffer and of bufferToLines,   *)
(* and a caller that reads the grid (isAlive, size) between the calls.     *)
(* The caller is one thread: inside go() it makes no call.  pc is          *)
(* "linesToBuffer" and "bufferToLines" inside go().                        *)
(***************************************************************************)
\* grid.go() is called: linesToBuffer starts its loops
GoCall ==
    /\ pc \in {"constructed", "seeded", "advanced"}
    /\ gen < MaxGo
    /\ pc' = "linesToBuffer"
    /\ ii' = 0
    /\ jj' = 0
    /\ query' = NoQuery
    /\ UNCHANGED <<screen, size, lines, lines_buffer, probability, rand, coin, gen, seeds>>

\* one pass through the body of the loops of bufferToLines; after the last
\* one go() returns to the caller
GoBufferToLinesStep ==
    /\ pc = "bufferToLines"
    /\ lines' = BufferToLinesCell(lines, lines_buffer, ii, jj)
    /\ IF LastCell(size, ii, jj)
       THEN /\ pc' = "advanced"
            /\ ii' = 0
            /\ jj' = 0
            /\ gen' = gen + 1
       ELSE /\ pc' = pc
            /\ ii' = NextII(size, ii, jj)
            /\ jj' = NextJJ(size, ii, jj)
            /\ gen' = gen
    /\ UNCHANGED <<query, screen, size, lines_buffer, probability, rand, coin, seeds>>

NextStep ==
    \/ \E p \in CallerProbs : Seed(p)
    \/ GoCall
    \/ LinesToBufferStep
    \/ GoBufferToLinesStep
    \/ \E xx \in Idx(size) : \E yy \in Idx(size) : IsAliveCall(xx, yy)
    \/ SizeCall

SpecStep == Init /\ [][NextStep]_vars

(***************************************************************************)
(* SpecSeed: grid.initializeRandomly(probability), one step per cell: ii   *)
(* is the line of Grid::initializeRandomly's loop, jj the cell of          *)
(* Line::initializeRandomly's loop.  At the call the visible buffer holds  *)
(* what the constructor or an earlier seeding left: any pattern.           *)
(***************************************************************************)
\* the visible buffers of a grid of size n
Grids(n) == [Idx(n) -> [Idx(n) -> BOOLEAN]]

InitSeed ==
    /\ size \in 1..MaxDrawN
    /\ lines \in Grids(size)
    /\ lines_buffer = Grid(size)
    /\ pc = "initializeRandomly"
    /\ ii = 0
    /\ jj = 0
    /\ probability \in Probs
    /\ rand = -1
    /\ coin = FALSE
    /\ gen = 0
    /\ seeds = 0
    /\ query = NoQuery
    /\ screen = <<>>

\* bool al = aux::rndBool(probability); cell.setAlive(al);
SeedCellStep ==
    /\ pc = "initializeRandomly"
    /\ \E r \in Rands : \E al \in rndBool(probability, r) :
          /\ rand' = r
          /\ coin' = al
          /\ lines' = [lines EXCEPT ![ii][jj] = al]
    /\ IF LastCell(size, ii, jj)
       THEN pc' = "seeded" /\ ii' = 0 /\ jj' = 0 /\ seeds' = seeds + 1
       ELSE /\ pc' = pc
            /\ ii' = NextII(size, ii, jj)
            /\ jj' = NextJJ(size, ii, jj)
            /\ seeds' = seeds
    /\ UNCHANGED <<query, screen, size, lines_buffer, probability, gen>>

NextSeed == SeedCellStep

SpecSeed == InitSeed /\ [][NextSeed]_vars

(***************************************************************************)
(* The rule of the game as the specification states it (sections 4.3 and   *)
(* 4.4, section 8), for the claims: none of these models the code.         *)
(***************************************************************************)
\* the 8 offsets of the neighbours of a cell
Offsets == ({-1, 0, 1} \X {-1, 0, 1}) \ {<<0, 0>>}

\* the number of offsets whose cell, taken modulo the size, is alive in L
TorusCount(L, i, j) ==
    LET n == GridSize(L)
    IN  Cardinality({d \in Offsets : L[(i + d[1]) % n][(j + d[2]) % n]})

\* the classic rule for one cell
ClassicCell(alive, count) == IF alive THEN count \in {2, 3} ELSE count = 3

\* the classic successor of the grid L on the torus
ClassicNext(L) ==
    [xx \in DOMAIN L |-> [yy \in DOMAIN L |->
        ClassicCell(L[xx][yy], TorusCount(L, xx, yy))]]

AllDead(L) == \A xx \in DOMAIN L : \A yy \in DOMAIN L : ~L[xx][yy]
AllAlive(L) == \A xx \in DOMAIN L : \A yy \in DOMAIN L : L[xx][yy]
LiveCells(L) == {c \in Cells(GridSize(L)) : L[c[1]][c[2]]}

\* the horizontal and the vertical line of three through the centre c
HLine(n, c) == GridOf(n, {<<c[1], (c[2] - 1) % n>>, c, <<c[1], (c[2] + 1) % n>>})
VLine(n, c) == GridOf(n, {<<(c[1] - 1) % n, c[2]>>, c, <<(c[1] + 1) % n, c[2]>>})

\* the 2 x 2 block whose upper left cell is c
Block(n, c) ==
    GridOf(n, {c, <<c[1], (c[2] + 1) % n>>, <<(c[1] + 1) % n, c[2]>>,
               <<(c[1] + 1) % n, (c[2] + 1) % n>>})

(***************************************************************************)
(* Claims.  In Spec, pc = "bufferToLines" is the state inside go() after   *)
(* linesToBuffer: lines is still the visible grid as it was before the     *)
(* call, and the step that follows returns from go() with lines' the       *)
(* visible grid after the call.                                            *)
(***************************************************************************)

\* C1: on a grid of size >= 3, in every reachable state, one go() replaces
\* the visible grid by its classic Game-of-Life successor on the torus.
C1_AdvanceIsClassic ==
    [][(pc = "bufferToLines" /\ size >= 3) => lines' = ClassicNext(lines)]_vars

\* C2: a cell that is alive and has exactly 2 or 3 live neighbours in the
\* visible grid is alive after one go() (sizes >= 3, where the 8 neighbours
\* are 8 cells).
C2_Survival ==
    [][(pc = "bufferToLines" /\ size >= 3) =>
         \A c \in Cells(size) :
            (isAlive(lines, c[1], c[2]) /\ TorusCount(lines, c[1], c[2]) \in {2, 3})
               => isAlive(lines', c[1], c[2])]_vars

\* C3: on a grid of size >= 5, a go() that starts with exactly a horizontal
\* line of three alive leaves exactly the vertical line of three through
\* the same centre, and a go() that starts with the vertical line leaves
\* the horizontal one.
C3_Blinker ==
    [][(pc = "bufferToLines" /\ size >= 5) =>
         \A c \in Cells(size) :
            /\ lines = HLine(size, c) => lines' = VLine(size, c)
            /\ lines = VLine(size, c) => lines' = HLine(size, c)]_vars

\* C4: on a grid of size >= 4, a go() that starts with exactly a 2 x 2
\* block alive leaves the visible grid as it was.
C4_BlockIsStill ==
    [][(pc = "bufferToLines" /\ size >= 4
          /\ \E c \in Cells(size) : lines = Block(size, c)) => lines' = lines]_vars

\* C5: for every cell (i, j), countAliveCells(i, j) is the number of the 8
\* offsets whose cell modulo the size is alive in the visible grid; it lies
\* in 0..8; and a live cell at (N-1, N-1) is counted for (0, 0).
C5_NeighbourCount ==
    /\ \A i \in Idx(size) : \A j \in Idx(size) :
          /\ countAliveCells(lines, i, j) = TorusCount(lines, i, j)
          /\ countAliveCells(lines, i, j) \in 0..8
    /\ isAlive(lines, size - 1, size - 1) => countAliveCells(lines, 0, 0) >= 1

\* a grid of size >= 3 with (N-1, N-1) alive, counted for (0, 0), some other
\* neighbour of (0, 0) dead and (0, 0) itself alive but not counted
C5_Witness ==
    /\ size >= 3
    /\ isAlive(lines, size - 1, size - 1)
    /\ isAlive(lines, 0, 0)
    /\ countAliveCells(lines, 0, 0) \in 1..7

\* C6: after initializeRandomly(100) has returned, every cell is alive.
C6_SeedHundredAllAlive ==
    (pc = "seeded" /\ probability = 100) => AllAlive(lines)

\* C7: for a probability p in 1..99, rndBool returns true exactly when its
\* uniform draw rnd = (rand % pow10) / pow10 is below p / 100, and the share
\* of the values of the draw that give true is p / 100.
C7_Percentage ==
    (rand >= 0 /\ probability \in 1..99) =>
        \A q \in Pow10Of(probability) :
           /\ coin = ((rand % q) * 100 < probability * q)
           /\ Cardinality({k \in 0..(q - 1) : RndBoolWith(q, probability, k)}) * 100
                 = probability * q

\* C8: a go() that starts with the visible grid all dead leaves it all dead.
C8_NoSpontaneousGeneration ==
    [][(pc = "bufferToLines" /\ AllDead(lines)) => AllDead(lines')]_vars

\* inside a go() that is not the first, the visible grid was all dead at the
\* call and linesToBuffer has left the scratch buffer all dead
C8_Witness ==
    /\ pc = "bufferToLines"
    /\ gen >= 1
    /\ AllDead(lines)
    /\ AllDead(lines_buffer)

\* C9: a live cell with no live neighbour is dead after one go(), and when
\* it is the only live cell the whole visible grid is dead after that go().
C9_Underpopulation ==
    [][pc = "bufferToLines" =>
         \A c \in Cells(size) :
            (isAlive(lines, c[1], c[2]) /\ TorusCount(lines, c[1], c[2]) = 0) =>
               /\ ~isAlive(lines', c[1], c[2])
               /\ LiveCells(lines) = {c} => AllDead(lines')]_vars

\* inside a go() that is not the first, on a grid of size >= 3: exactly one
\* cell was alive at the call and linesToBuffer has left the buffer all dead
C9_Witness ==
    /\ pc = "bufferToLines"
    /\ size >= 3
    /\ gen >= 1
    /\ Cardinality(LiveCells(lines)) = 1
    /\ AllDead(lines_buffer)

\* the cells the two nested loops of a method have passed when they stand at
\* (i, j)
Assigned(n, i, j) == {c \in Cells(n) : c[1] < i \/ (c[1] = i /\ c[2] < j)}

\* C10: the caller reads the grid only before go() starts and after it has
\* returned, never in between: inside go() no read is on record.  While the
\* commit phase runs, the cells it has passed hold the value the compute
\* phase produced (the others still hold the generation before); when go()
\* has returned every visible cell holds the value the compute phase
\* produced for that generation, and so does every isAlive call on record.
C10_AtomicAdvance ==
    /\ pc \in {"linesToBuffer", "bufferToLines"} => query = NoQuery
    /\ pc = "bufferToLines" =>
          \A c \in Assigned(size, ii, jj) :
             isAlive(lines, c[1], c[2]) = isAlive(lines_buffer, c[1], c[2])
    /\ pc = "advanced" =>
          /\ lines = lines_buffer
          /\ query.op = "isAlive" =>
                query.alive = isAlive(lines_buffer, query.xx, query.yy)

\* go() has returned with a generation that has live and dead cells, and the
\* caller has read a live cell of it
C10_Witness ==
    /\ pc = "advanced"
    /\ size >= 3
    /\ query.op = "isAlive"
    /\ query.alive
    /\ ~AllAlive(lines)

\* C11: a read changes no buffer and no size: a step that leaves a read on
\* record (isAlive(xx, yy) or size()) leaves the visible buffer and the
\* scratch buffer as they were, isAlive returns the flag of the visible cell
\* (xx, yy), size() returns the number of lines, and an isAlive call for the
\* cell of the previous isAlive call returns what that call returned
C11_ReadsHaveNoEffect ==
    [][query' # NoQuery =>
          /\ lines' = lines
          /\ lines_buffer' = lines_buffer
          /\ size' = size
          /\ query'.op = "isAlive" => query'.alive = lines[query'.xx][query'.yy]
          /\ query'.op = "size" => query'.n = size
          /\ (/\ query.op = "isAlive"
              /\ query'.op = "isAlive"
              /\ query'.xx = query.xx
              /\ query'.yy = query.yy) => query'.alive = query.alive]_vars

\* isAlive has returned true for a cell of a grid that was seeded, advanced
\* and seeded again
C11_Witness ==
    /\ query.op = "isAlive"
    /\ query.alive
    /\ pc = "seeded"
    /\ gen >= 1

\* C12: initializeRandomly(0) leaves every cell dead, whatever std::rand()
\* returns and whatever the visible buffer held at the call: every cell the
\* call has assigned is dead, and when it has returned all cells are dead.
C12_SeedZeroAllDead ==
    probability = 0 =>
        /\ pc = "initializeRandomly" =>
              \A c \in Assigned(size, ii, jj) : ~isAlive(lines, c[1], c[2])
        /\ pc = "seeded" => AllDead(lines)
        /\ rand >= 0 => ~coin

\* initializeRandomly(0) has assigned every cell but the last, with
\* std::rand() returning RAND_MAX for the latest, and the last cell is still
\* alive from before the call
C12_Witness ==
    /\ probability = 0
    /\ pc = "initializeRandomly"
    /\ size = MaxDrawN
    /\ LastCell(size, ii, jj)
    /\ isAlive(lines, ii, jj)
    /\ rand = 2147483647

\* the visible grid a second grid of the same size shows after: construct,
\* seed with outcome L, go()
TwinNext(L) == bufferToLines(L, linesToBuffer(L, Grid(GridSize(L))))

\* C13: two grids of the same size with equal visible grids before go() have
\* equal visible grids after go(), whatever their scratch buffers hold.  The
\* second grid is the twin that was constructed and seeded to the same
\* visible grid: whenever the visible grid at a go() is one a seeding can
\* leave, go() leaves what go() leaves on the twin.
C13_DependsOnVisibleOnly ==
    [][(pc = "bufferToLines" /\ lines \in initializeRandomly(size, MainProbability))
          => lines' = TwinNext(lines)]_vars

\* C14: inside go(), while linesToBuffer runs no cell of the visible buffer
\* changes; linesToBuffer starts at cell (0, 0) and takes the cells one by
\* one in row order; bufferToLines starts only from linesToBuffer's pass
\* over the last cell (size - 1, size - 1), N x N passes after the start;
\* while bufferToLines runs no cell of the scratch buffer changes.
C14_PhaseOrder ==
    [][/\ pc = "linesToBuffer" => lines' = lines
       /\ pc = "bufferToLines" => lines_buffer' = lines_buffer
       /\ (pc # "linesToBuffer" /\ pc' = "linesToBuffer") => (ii' = 0 /\ jj' = 0)
       /\ (pc = "linesToBuffer" /\ pc' = "linesToBuffer") =>
              ii' * size + jj' = ii * size + jj + 1
       /\ (pc # "bufferToLines" /\ pc' = "bufferToLines") =>
              /\ pc = "linesToBuffer"
              /\ ii * size + jj = size * size - 1]_vars

\* linesToBuffer has passed over all cells of a grid with live cells and
\* left a scratch buffer with live cells that differs from the visible one;
\* bufferToLines is about to start
C14_Witness ==
    /\ pc = "bufferToLines"
    /\ ii = 0
    /\ jj = 0
    /\ size >= 3
    /\ ~AllDead(lines)
    /\ ~AllDead(lines_buffer)
    /\ lines # lines_buffer

\* the order of the statements of main(): seed, then draw, go() (its two
\* phases), sleep, and draw again
MainOrder ==
    {<<"seed", "draw">>, <<"draw", "linesToBuffer">>,
     <<"linesToBuffer", "bufferToLines">>, <<"bufferToLines", "sleep">>,
     <<"sleep", "draw">>}

\* C15 (SpecMainFair): main() seeds once, then repeats draw, go(), sleep forever.  The
\* statements follow each other in the order of MainOrder: the first draw
\* comes right after the seeding, with no go() completed and the scratch
\* buffer as constructed, one go() lies between a draw and the next, and
\* nothing leads back to the seeding.  Every draw shows the visible grid;
\* the visible grid changes only in the seeding and in go()'s commit phase.
\* After every draw the program comes to the next draw and draws.
C15_DriverLoop ==
    /\ [][/\ pc' # pc => <<pc, pc'>> \in MainOrder
          /\ pc = "draw" => screen' = Frame(lines)
          /\ pc # "draw" => screen' = screen
          /\ (pc = "draw" /\ screen = <<>>) =>
                 (gen = 0 /\ lines_buffer = Grid(size))
          /\ pc \notin {"seed", "bufferToLines"} => lines' = lines]_vars
    /\ (pc = "linesToBuffer") ~> (pc = "draw")
    /\ (pc = "draw") ~> (pc = "linesToBuffer")

\* C16: whenever go() has returned the scratch buffer equals the visible
\* buffer cell for cell (until initializeRandomly or the next go() is
\* called); right after construction both buffers are all dead and equal.
C16_BuffersAgree ==
    /\ pc = "advanced" => lines_buffer = lines
    /\ pc = "constructed" =>
          (AllDead(lines) /\ AllDead(lines_buffer) /\ lines_buffer = lines)

\* go() has returned for the second time at least, on a grid that was seeded
\* anew in between or not, with live cells in the two equal buffers
C16_Witness ==
    /\ pc = "advanced"
    /\ gen >= 2
    /\ ~AllDead(lines)
    /\ ~AllDead(lines_buffer)

\* C17: initializeRandomly(p) leaves every cell of the scratch buffer as it
\* was, all dead on a grid just constructed and the generation go()
\* committed last on a grid that was advanced, and it assigns every cell of
\* the visible buffer: every cell holds a result of rndBool(p) after the
\* call, none what it held before (after initializeRandomly(0) no cell is
\* alive, whatever the visible buffer held at the call).
C17_SeedWritesVisibleOnly ==
    [][pc' = "seeded" =>
          /\ lines_buffer' = lines_buffer
          /\ pc = "constructed" => AllDead(lines_buffer')
          /\ pc = "advanced" => lines_buffer' = lines
          /\ \A c \in Cells(size) :
                 isAlive(lines', c[1], c[2]) \in CallerOutcomes[probability']
          /\ probability' = 0 => AllDead(lines')]_vars

\* a grid seeded with initializeRandomly(0) after a go(): the scratch
\* buffer holds the generation of that go(), with live cells, which was the
\* visible grid at the call
C17_Witness ==
    /\ pc = "seeded"
    /\ gen >= 1
    /\ probability = 0
    /\ seeds = MaxSeeds
    /\ ~AllDead(lines_buffer)
    /\ AllDead(lines)

\* C18: a go() called in a state where the scratch buffer equals the visible
\* buffer leaves the visible grid equal to the classic successor on the
\* torus of the visible grid before the call: linesToBuffer leaves the
\* visible grid as it was and the classic successor in the scratch buffer,
\* and bufferToLines makes the visible grid equal to the scratch buffer.
C18_ClassicWhenBuffersAgree ==
    [][/\ (pc # "bufferToLines" /\ pc' = "bufferToLines" /\ lines_buffer = lines)
             => (lines' = lines /\ lines_buffer' = ClassicNext(lines))
       /\ pc = "bufferToLines" => lines' = lines_buffer]_vars

\* inside a go() that is not the first: the scratch buffer holds the
\* classic successor, which has live cells, differs from the visible grid
\* and is not what go() computes from that visible grid on a scratch buffer
\* as constructed
C18_Witness ==
    /\ pc = "bufferToLines"
    /\ gen >= 1
    /\ lines_buffer = ClassicNext(lines)
    /\ lines_buffer # linesToBuffer(lines, Grid(size))
    /\ lines_buffer # lines
    /\ ~AllDead(lines_buffer)

\* C19: on a grid of size 3 or more, after construct, seed and the first
\* go(), a cell is alive exactly when 3 of its 8 neighbours on the torus
\* were alive in the seeded grid, whether or not the cell itself was.
C19_FirstGeneration ==
    [][(pc = "bufferToLines" /\ gen = 0 /\ size >= 3) =>
          \A c \in Cells(size) :
             isAlive(lines', c[1], c[2]) <=> (TorusCount(lines, c[1], c[2]) = 3)]_vars

\* inside the first go() after the seeding: a live cell of the seeded grid
\* with 2 live neighbours is dead in the scratch buffer, and a dead cell
\* with 3 live neighbours is alive in it
C19_Witness ==
    /\ pc = "bufferToLines"
    /\ gen = 0
    /\ size >= 3
    /\ \E c \in Cells(size) :
          /\ isAlive(lines, c[1], c[2])
          /\ TorusCount(lines, c[1], c[2]) = 2
          /\ ~isAlive(lines_buffer, c[1], c[2])
    /\ \E c \in Cells(size) :
          /\ ~isAlive(lines, c[1], c[2])
          /\ TorusCount(lines, c[1], c[2]) = 3
          /\ isAlive(lines_buffer, c[1], c[2])

====
